---------------------------- MODULE Spec2Model ----------------------------
(***************************************************************************)
(* GraphQL transport pipeline of the nuxt4-use proxy:                      *)
(*   customApi/core/utils  (header derivation, parameter parsing, query    *)
(*                          compression, error classification),            *)
(*   customApi/core/index  (interfaceCall, the transport dispatcher),      *)
(*   customApi/core/axiosPoolSingleton (the process-wide HTTP client).     *)
(*                                                                         *)
(* Text is a sequence of one-character strings.  Two words the compressor  *)
(* itself writes, "__typename" and "__PROTECTED_PARAM_<i>__", are kept as  *)
(* single elements: the input alphabets below contain no underscore and no *)
(* upper-case letter, so no input text can spell or split them.            *)
(***************************************************************************)
EXTENDS Integers, Sequences, FiniteSets, TLC

VARIABLES
    compressPc,     \* "off" | "called" | "returned"
    compressIn,     \* the query given to compressGraphQLQuery
    compressOut,    \* its return value
    \* --- interfaceCall (the dispatcher) and its mocked transport ---
    pc,             \* "off" | "called" | "awaiting" | "returned" | "threw"
    options,        \* the caller's {query, variables, headers, type}
    depth,          \* 0 in the caller's invocation, 1 inside the POST re-invocation
    calls,          \* the upstream calls issued so far, in order
    urlLength,      \* length of fullUrl when it was built, -1 otherwise
    outcome,        \* what the awaited upstream call produced
    result,         \* the returned envelope, or the value thrown to the caller
    \* --- axiosPoolSingleton ---
    globalInstance, \* global.__axiosInstance: 0 for undefined, else the client's id
    created,        \* how many times axios.create() has run in this process
    exported,       \* per evaluation of the module: its default export (0: not evaluated)
    tasks,          \* per request-handling task: where it is and the client it used
    \* --- getHeaders ---
    headersPc,      \* "off" | "called" | "returned"
    headersIn,      \* [req, customHeaders]
    headersOut,     \* the returned header map
    \* --- getParamsAndHeaders ---
    paramsPc,       \* "off" | "called" | "returned" | "threw"
    paramsIn,       \* the request
    paramsOut       \* {params, headers}, or the Error thrown

compressVars == <<compressPc, compressIn, compressOut>>

dispatchVars == <<pc, options, depth, calls, urlLength, outcome, result>>

poolVars == <<globalInstance, created, exported, tasks>>

headersVars == <<headersPc, headersIn, headersOut>>

paramsVars == <<paramsPc, paramsIn, paramsOut>>

vars == <<compressVars, dispatchVars, poolVars, headersVars, paramsVars>>

allButCompress == <<dispatchVars, poolVars, headersVars, paramsVars>>

allButDispatch == <<compressVars, poolVars, headersVars, paramsVars>>

allButPool == <<compressVars, dispatchVars, headersVars, paramsVars>>

allButHeaders == <<compressVars, dispatchVars, poolVars, paramsVars>>

allButParams == <<compressVars, dispatchVars, poolVars, headersVars>>

(***************************************************************************)
(* Bounds                                                                  *)
(***************************************************************************)
MaxFreeLen == 4      \* characters of a query drawn freely
MaxBodyLen == 1      \* characters before / after a drawn argument list
MaxArgLen == 3       \* characters inside a drawn argument list
MaxModuleLoads == 2  \* evaluations of axiosPoolSingleton in one process
MaxTasks == 4        \* concurrent request-handling tasks
MaxParams == 2       \* elements of a drawn JSON array of parameters
PadLo == 8124        \* shortest long "url" variable drawn for a dispatch
PadSpan == 20        \* the long ones are PadLo .. PadLo + PadSpan characters

(***************************************************************************)
(* Text helpers                                                            *)
(***************************************************************************)
SeqsUpTo(A, n) == UNION {[1..k -> A] : k \in 0..n}

Min(S) == CHOOSE m \in S : \A o \in S : m <= o

\* First index j >= i with s[j] = c, 0 when there is none.
IndexFrom(s, c, i) ==
    LET hits == {j \in i..Len(s) : s[j] = c}
    IN  IF hits = {} THEN 0 ELSE Min(hits)

RECURSIVE Flatten(_)
Flatten(ss) == IF ss = <<>> THEN <<>> ELSE Head(ss) \o Flatten(Tail(ss))

\* JavaScript's \s, on the characters of the alphabets used here.
IsWhitespace(c) == c \in {" ", "\n", "\t"}

\* The character class [{}(),:] of the last replace of compressGraphQLQuery.
IsPunct(c) == c \in {"{", "}", "(", ")", ",", ":"}

Typename == "__typename"

placeholder(index) == "__PROTECTED_PARAM_" \o ToString(index) \o "__"

(***************************************************************************)
(* compressGraphQLQuery                                                    *)
(***************************************************************************)
\* query.replace(/\([^)]*\)/g, ...): leftmost "(" up to the next ")", each
\* match replaced by the placeholder of its index and kept in order.
RECURSIVE protectFrom(_, _, _, _)
protectFrom(q, i, text, sections) ==
    IF i > Len(q) THEN [text |-> text, sections |-> sections]
    ELSE IF q[i] = "(" /\ IndexFrom(q, ")", i + 1) # 0
         THEN LET j == IndexFrom(q, ")", i + 1)
              IN  protectFrom(q, j + 1,
                              Append(text, placeholder(Len(sections))),
                              Append(sections, SubSeq(q, i, j)))
         ELSE protectFrom(q, i + 1, Append(text, q[i]), sections)

protectSections(q) == protectFrom(q, 1, <<>>, <<>>)

\* protectedQuery.replace(/}/g, ' __typename }')
addTypename(text) ==
    Flatten([i \in 1..Len(text) |->
                IF text[i] = "}" THEN <<" ", Typename, " ", "}">>
                                 ELSE <<text[i]>>])

\* The replacement-string patterns of String.prototype.replace with a string
\* pattern (no capture groups): $$ is "$", $& the matched text, $' the text
\* after the match; every other "$" is literal.  ($` needs the backtick,
\* which no alphabet here contains.)
RECURSIVE getSubstitution(_, _, _, _)
getSubstitution(content, i, matched, after) ==
    IF i > Len(content) THEN <<>>
    ELSE IF content[i] = "$" /\ i < Len(content) /\ content[i + 1] = "$"
         THEN <<"$">> \o getSubstitution(content, i + 2, matched, after)
    ELSE IF content[i] = "$" /\ i < Len(content) /\ content[i + 1] = "&"
         THEN matched \o getSubstitution(content, i + 2, matched, after)
    ELSE IF content[i] = "$" /\ i < Len(content) /\ content[i + 1] = "'"
         THEN after \o getSubstitution(content, i + 2, matched, after)
    ELSE <<content[i]>> \o getSubstitution(content, i + 1, matched, after)

\* protectedQuery.replace(placeholder, content): the first occurrence only.
replaceFirst(text, ph, content) ==
    LET at == IndexFrom(text, ph, 1)
    IN  IF at = 0 THEN text
        ELSE LET before == SubSeq(text, 1, at - 1)
                 after  == SubSeq(text, at + 1, Len(text))
             IN  before \o getSubstitution(content, 1, <<ph>>, after) \o after

\* protectedSections.forEach((content, index) => ...)
RECURSIVE restoreFrom(_, _, _)
restoreFrom(text, sections, index) ==
    IF index >= Len(sections) THEN text
    ELSE restoreFrom(replaceFirst(text, placeholder(index), sections[index + 1]),
                     sections, index + 1)

restoreSections(text, sections) == restoreFrom(text, sections, 0)

\* .replace(/#.*$/gm, ''): from "#" up to, not including, the line end.
RECURSIVE stripComments(_, _, _)
stripComments(text, i, inComment) ==
    IF i > Len(text) THEN <<>>
    ELSE IF text[i] = "\n"
         THEN <<"\n">> \o stripComments(text, i + 1, FALSE)
    ELSE IF inComment \/ text[i] = "#"
         THEN stripComments(text, i + 1, TRUE)
    ELSE <<text[i]>> \o stripComments(text, i + 1, FALSE)

\* .replace(/\s+/g, ' ')
RECURSIVE collapseWhitespace(_, _)
collapseWhitespace(text, i) ==
    IF i > Len(text) THEN <<>>
    ELSE IF IsWhitespace(text[i])
         THEN IF i > 1 /\ IsWhitespace(text[i - 1])
              THEN collapseWhitespace(text, i + 1)
              ELSE <<" ">> \o collapseWhitespace(text, i + 1)
    ELSE <<text[i]>> \o collapseWhitespace(text, i + 1)

\* Index of the first non-whitespace character at or after i (Len+1 if none).
RECURSIVE skipWhitespace(_, _)
skipWhitespace(text, i) ==
    IF i <= Len(text) /\ IsWhitespace(text[i]) THEN skipWhitespace(text, i + 1)
    ELSE i

\* .replace(/\s*([{}(),:])\s*/g, '$1'): matches are taken left to right and
\* do not overlap; whitespace not followed by a symbol is kept.
RECURSIVE stripAroundSymbols(_, _)
stripAroundSymbols(text, i) ==
    IF i > Len(text) THEN <<>>
    ELSE LET k == skipWhitespace(text, i)
         IN  IF k <= Len(text) /\ IsPunct(text[k])
             THEN <<text[k]>> \o stripAroundSymbols(text, skipWhitespace(text, k + 1))
             ELSE <<text[i]>> \o stripAroundSymbols(text, i + 1)

\* .trim()
RECURSIVE trimEnd(_)
trimEnd(text) ==
    IF text # <<>> /\ IsWhitespace(text[Len(text)])
    THEN trimEnd(SubSeq(text, 1, Len(text) - 1))
    ELSE text

trim(text) == trimEnd(SubSeq(text, skipWhitespace(text, 1), Len(text)))

compressGraphQLQuery(query) ==
    IF query = <<>> THEN query
    ELSE LET p        == protectSections(query)
             typed    == addTypename(p.text)
             restored == restoreSections(typed, p.sections)
         IN  trim(stripAroundSymbols(
                    collapseWhitespace(stripComments(restored, 1, FALSE), 1), 1))

(***************************************************************************)
(* Specification of the compressor: a query is drawn, then compressed.     *)
(***************************************************************************)
BodyAlphabet == {"{", "}", " ", "a", "#", "\n"}
ArgAlphabet == {"$", "'", " ", ",", "}", "#", "\"", "a"}

\* Queries without an argument list, and queries with one.
CompressInputs ==
    SeqsUpTo(BodyAlphabet \cup {"(", ")"}, MaxFreeLen)
    \cup {pre \o <<"(">> \o arg \o <<")">> \o post :
            pre \in SeqsUpTo(BodyAlphabet, MaxBodyLen),
            arg \in SeqsUpTo(ArgAlphabet, MaxArgLen),
            post \in SeqsUpTo(BodyAlphabet, MaxBodyLen)}

CompressOff ==
    /\ compressPc = "off"
    /\ compressIn = <<>>
    /\ compressOut = <<>>

DispatchOff ==
    /\ pc = "off"
    /\ options = <<>>
    /\ depth = 0
    /\ calls = <<>>
    /\ urlLength = -1
    /\ outcome = <<>>
    /\ result = <<>>

PoolOff ==
    /\ globalInstance = 0
    /\ created = 0
    /\ exported = <<>>
    /\ tasks = <<>>

HeadersOff ==
    /\ headersPc = "off"
    /\ headersIn = <<>>
    /\ headersOut = <<>>

ParamsOff ==
    /\ paramsPc = "off"
    /\ paramsIn = <<>>
    /\ paramsOut = <<>>

CompressInit ==
    /\ compressPc = "called"
    /\ compressIn \in CompressInputs
    /\ compressOut = <<>>
    /\ DispatchOff /\ PoolOff /\ HeadersOff /\ ParamsOff

CompressReturn ==
    /\ compressPc = "called"
    /\ compressPc' = "returned"
    /\ compressOut' = compressGraphQLQuery(compressIn)
    /\ UNCHANGED <<compressIn, allButCompress>>

SpecCompress == CompressInit /\ [][CompressReturn]_vars

(***************************************************************************)
(* Claims about the compressor                                             *)
(***************************************************************************)
\* Every "}" closes a "{" opened before it, and every "{" is closed.
RECURSIVE BracesBalancedFrom(_, _, _)
BracesBalancedFrom(q, i, open) ==
    IF i > Len(q) THEN open = 0
    ELSE IF q[i] = "{" THEN BracesBalancedFrom(q, i + 1, open + 1)
    ELSE IF q[i] = "}" THEN open > 0 /\ BracesBalancedFrom(q, i + 1, open - 1)
    ELSE BracesBalancedFrom(q, i + 1, open)

BalancedBraces(q) == BracesBalancedFrom(q, 1, 0)

\* Position i lies in a parenthesis group: a "(" before it with no ")" in
\* between, and a ")" at or after it.
InParenGroup(q, i) ==
    /\ \E j \in 1..i : q[j] = "(" /\ \A k \in j..(i - 1) : q[k] # ")"
    /\ \E k \in i..Len(q) : q[k] = ")"

ClosingBracesOutsideParens(q) ==
    Cardinality({i \in 1..Len(q) : q[i] = "}" /\ ~InParenGroup(q, i)})

\* "__typename" placed immediately before a closing brace.
TypenameTokens(out) ==
    Cardinality({i \in 1..(Len(out) - 1) : out[i] = Typename /\ out[i + 1] = "}"})

NoWhitespaceAroundSymbols(out) ==
    \A i \in 1..Len(out) :
        IsWhitespace(out[i]) =>
            /\ (i > 1 => ~IsPunct(out[i - 1]))
            /\ (i < Len(out) => ~IsPunct(out[i + 1]))

HasComment(q) == \E i \in 1..Len(q) : q[i] = "#"

\* C8, on the queries that hold no "#" comment (so that no brace is hidden
\* in a comment): for every query with balanced braces the output holds
\* exactly one typename token per closing brace of the input outside any
\* parenthesis group, and no whitespace next to { } ( ) , :
C8_OneTypenamePerClosingBrace ==
    (compressPc = "returned" /\ BalancedBraces(compressIn) /\ ~HasComment(compressIn))
        => /\ TypenameTokens(compressOut) = ClosingBracesOutsideParens(compressIn)
           /\ NoWhitespaceAroundSymbols(compressOut)

\* The argument lists of a text, in order: each "(" up to the next ")".
RECURSIVE ArgListsFrom(_, _)
ArgListsFrom(q, i) ==
    IF i > Len(q) THEN <<>>
    ELSE IF q[i] = "(" /\ IndexFrom(q, ")", i + 1) # 0
         THEN <<SubSeq(q, i, IndexFrom(q, ")", i + 1))>>
              \o ArgListsFrom(q, IndexFrom(q, ")", i + 1) + 1)
         ELSE ArgListsFrom(q, i + 1)

ArgLists(q) == ArgListsFrom(q, 1)

\* Parentheses are matched and never nested.
RECURSIVE ParensFlatFrom(_, _, _)
ParensFlatFrom(q, i, open) ==
    IF i > Len(q) THEN ~open
    ELSE IF q[i] = "(" THEN ~open /\ ParensFlatFrom(q, i + 1, TRUE)
    ELSE IF q[i] = ")" THEN open /\ ParensFlatFrom(q, i + 1, FALSE)
    ELSE ParensFlatFrom(q, i + 1, open)

ParensFlat(q) == ParensFlatFrom(q, 1, FALSE)

\* An argument list that is one quoted string literal: ( " ... " )
IsStringLiteralArg(g) ==
    /\ Len(g) >= 4
    /\ g[2] = "\"" /\ g[Len(g) - 1] = "\""
    /\ \A i \in 3..(Len(g) - 2) : g[i] # "\""

IsPlaceholder(c) == \E n \in 0..MaxFreeLen : c = placeholder(n)

\* C9: every argument list without nested parentheses appears in the output
\* in its original order with its original content, the characters of its
\* string literal included, and no placeholder is left in the output.
\* Stated for the queries whose argument lists are quoted string literals
\* and that hold no "#" outside an argument list (no comment line).
C9_ArgListsRestored ==
    (/\ compressPc = "returned"
     /\ ParensFlat(compressIn)
     /\ \A i \in 1..Len(compressIn) :
            compressIn[i] = "#" => InParenGroup(compressIn, i)
     /\ \A n \in 1..Len(ArgLists(compressIn)) :
            IsStringLiteralArg(ArgLists(compressIn)[n]))
        => /\ ArgLists(compressOut) = ArgLists(compressIn)
           /\ \A i \in 1..Len(compressOut) : ~IsPlaceholder(compressOut[i])

(***************************************************************************)
(* JavaScript values                                                       *)
(*   undefined, null and objects are tagged; an object's properties are a  *)
(*   function from the names that are present to their values.             *)
(***************************************************************************)
Undefined == [t |-> "undefined"]
Null == [t |-> "null"]
Circular == [t |-> "circular"]       \* an object that refers to itself
Obj(props) == [t |-> "object", props |-> props]

IsNullish(v) == v.t \in {"undefined", "null"}
Has(v, k) == v.t = "object" /\ k \in DOMAIN v.props

\* v?.k, as a JavaScript value, for properties that hold objects.
Get(v, k) == IF Has(v, k) THEN v.props[k] ELSE Undefined

Opt(k, v, present) == IF present THEN k :> v ELSE <<>>

\* {...a, ...b} on property maps: b's entries win.
Spread(a, b) == b @@ a

\* A string with a run of `run` letters "a" between head and tail.
Text(head, run, tail) == [head |-> head, run |-> run, tail |-> tail]

RECURSIVE CharCount(_)
CharCount(seq) == IF seq = <<>> THEN 0 ELSE Len(Head(seq)) + CharCount(Tail(seq))

TextLength(txt) == CharCount(txt.head) + txt.run + CharCount(txt.tail)

(***************************************************************************)
(* getResponseCacheId, isUrlTooLong, safeJSONStringify                     *)
(***************************************************************************)
getResponseCacheId(headers) ==
    IF headers.t # "object" THEN ""
    ELSE IF Has(headers, "x-magento-cache-id") /\ headers.props["x-magento-cache-id"] # ""
         THEN headers.props["x-magento-cache-id"]
    ELSE IF Has(headers, "X-Magento-Cache-Id") /\ headers.props["X-Magento-Cache-Id"] # ""
         THEN headers.props["X-Magento-Cache-Id"]
    ELSE ""

MaxUrlLength == 8192

isUrlTooLongInclusive(length) == length >= MaxUrlLength

isUrlTooLong(length) == length > MaxUrlLength

\* JSON.stringify of {url: <text>}; "{}" for null, undefined and for an
\* object JSON.stringify throws on.
safeJSONStringify(obj) ==
    IF IsNullish(obj) THEN Text(<<"{", "}">>, 0, <<>>)
    ELSE IF obj.t = "circular" THEN Text(<<"{", "}">>, 0, <<>>)
    ELSE Text(<<"{", "\"", "u", "r", "l", "\"", ":", "\"">> \o obj.props.url.head,
              obj.props.url.run,
              obj.props.url.tail \o <<"\"", "}">>)

(***************************************************************************)
(* encodeURIComponent                                                      *)
(***************************************************************************)
LoneSurrogate == "<D800>"            \* one unpaired UTF-16 surrogate code unit

\* The characters encodeURIComponent escapes, with their escapes.
PercentCode ==
    [c \in {"{", "}", " ", "\"", ":", ",", "#", "$", "\n"} |->
        CASE c = "{"  -> <<"%", "7", "B">>
          [] c = "}"  -> <<"%", "7", "D">>
          [] c = " "  -> <<"%", "2", "0">>
          [] c = "\"" -> <<"%", "2", "2">>
          [] c = ":"  -> <<"%", "3", "A">>
          [] c = ","  -> <<"%", "2", "C">>
          [] c = "#"  -> <<"%", "2", "3">>
          [] c = "$"  -> <<"%", "2", "4">>
          [] c = "\n" -> <<"%", "0", "A">>]

Encodable(seq) == \A i \in 1..Len(seq) : seq[i] # LoneSurrogate

\* Letters, digits, "_", "(", ")" and "'" are left as they are.
encodeChars(seq) ==
    Flatten([i \in 1..Len(seq) |->
                IF seq[i] \in DOMAIN PercentCode THEN PercentCode[seq[i]]
                                                ELSE <<seq[i]>>])

encodeText(txt) == Text(encodeChars(txt.head), txt.run, encodeChars(txt.tail))

graphqlUrl == <<"/", "g", "r", "a", "p", "h", "q", "l">>

\* `${graphqlUrl}?query=${encodedQuery}&variables=${encodedVariables}`
fullUrl(query, variables) ==
    [path      |-> graphqlUrl,
     query     |-> encodeChars(compressGraphQLQuery(query)),
     variables |-> encodeText(safeJSONStringify(variables))]

fullUrlLength(url) ==
    Len(url.path) + Len("?query=") + CharCount(url.query)
        + Len("&variables=") + TextLength(url.variables)

(***************************************************************************)
(* errorHandlers.getErrorStatusCode                                        *)
(***************************************************************************)
\* a || 500 on a property that holds a number when it is present
OrDefault(v, k) == IF Has(v, k) /\ v.props[k] # 0 THEN v.props[k] ELSE 500

getErrorStatusCode(error) ==
    IF Has(error, "code") /\ error.props.code \in {"ECONNABORTED", "ERR_SOCKET_TIMEOUT"}
    THEN 400
    ELSE IF Has(error, "code") /\ error.props.code \in {"ENOTFOUND", "ECONNREFUSED"}
    THEN 500
    ELSE IF Has(error, "isAxiosError") /\ error.props.isAxiosError
    THEN OrDefault(Get(error, "response"), "status")
    ELSE IF Has(error, "networkError")
    THEN OrDefault(error.props.networkError, "statusCode")
    ELSE IF Has(error, "statusCode") /\ error.props.statusCode # 0
    THEN error.props.statusCode
    ELSE 500

(***************************************************************************)
(* interfaceCall                                                           *)
(***************************************************************************)
\* `${x}` of a property that is a number, a string or missing
Shown(v, k) ==
    IF ~Has(v, k) THEN "undefined"
    ELSE IF k = "status" THEN ToString(v.props[k]) ELSE v.props[k]

\* What evaluating error.message on a null or undefined error throws.
MessageOfNullish == Obj("name" :> "TypeError" @@ "message" :> "Cannot read properties of null")

\* What encodeURIComponent throws on a lone surrogate.
UriMalformed == Obj("name" :> "URIError" @@ "message" :> "URI malformed")

Returned(v) == [threw |-> FALSE, value |-> v]
Thrown(v) == [threw |-> TRUE, value |-> v]

\* The catch block: the failure envelope, or the TypeError raised while
\* building it.
catchBlock(error) ==
    IF IsNullish(error) THEN Thrown(MessageOfNullish)
    ELSE LET statusCode == getErrorStatusCode(error)
             own     == IF Has(error, "message") /\ error.props.message # ""
                        THEN error.props.message
                        ELSE "Unknown error occurred"
             message == IF Has(error, "code") /\ error.props.code = "ENOTFOUND"
                        THEN "Network connection failed - server not found"
                        ELSE IF Has(error, "code") /\ error.props.code = "ECONNREFUSED"
                        THEN "Network connection refused by server"
                        ELSE IF Has(error, "response")
                        THEN "Server error: " \o Shown(error.props.response, "status")
                                 \o " " \o Shown(error.props.response, "statusText")
                        ELSE own
         IN  Returned([code       |-> -1,
                       statusCode |-> statusCode,
                       message    |-> message,
                       data       |-> Get(Get(error, "response"), "data")])

withCacheIdBodyWins(response) ==
    LET data == IF response.data.t = "object" THEN response.data.props ELSE <<>>
    IN  Obj(Spread("cacheId" :> getResponseCacheId(response.headers), data))

\* response.data = {...response?.data, cacheId: getResponseCacheId(response?.headers)}
withCacheId(response) ==
    LET data == IF response.data.t = "object" THEN response.data.props ELSE <<>>
    IN  Obj(Spread(data, "cacheId" :> getResponseCacheId(response.headers)))

\* The code after the awaited api.get / api.post resolved.
afterResponse(response) ==
    IF response.t = "object"
    THEN Returned([code |-> 0, data |-> withCacheId(response)])
    ELSE Returned([code |-> 0, data |-> Undefined])

\* An invocation that completed inside the POST re-invocation hands its
\* result to the caller's `return await`: a returned envelope is returned
\* as it is, a thrown value lands in the caller's own catch block.
unwind(completion, d) ==
    IF d = 1 /\ completion.threw THEN catchBlock(completion.value) ELSE completion

getCall(url, headers) == [method |-> "get", fullUrl |-> url, headers |-> headers]

fallbackOptionsCompressed(opts) ==
    [query |-> compressGraphQLQuery(opts.query), variables |-> opts.variables,
     headers |-> opts.headers, type |-> "post"]

\* The re-invocation passes the query, variables and headers it was given.
fallbackOptions(opts) ==
    [query |-> opts.query, variables |-> opts.variables,
     headers |-> opts.headers, type |-> "post"]

postCall(opts) ==
    [method |-> "post", url |-> graphqlUrl,
     body |-> [query |-> opts.query, variables |-> opts.variables],
     headers |-> opts.headers]

Finish(completion) ==
    /\ pc' = IF completion.threw THEN "threw" ELSE "returned"
    /\ result' = completion.value

\* type === 'get', and encodeURIComponent throws: straight to the catch block.
BuildFails ==
    /\ pc = "called" /\ options.type = "get"
    /\ ~Encodable(compressGraphQLQuery(options.query))
    /\ outcome' = [kind |-> "rejected", value |-> UriMalformed]
    /\ Finish(catchBlock(UriMalformed))
    /\ UNCHANGED <<allButDispatch, options, depth, calls, urlLength>>

\* type === 'get', the URL is short enough: api.get(fullUrl, {headers}).
IssueGet ==
    /\ pc = "called" /\ options.type = "get"
    /\ Encodable(compressGraphQLQuery(options.query))
    /\ LET url == fullUrl(options.query, options.variables)
       IN  /\ ~isUrlTooLong(fullUrlLength(url))
           /\ urlLength' = fullUrlLength(url)
           /\ calls' = Append(calls, getCall(url, options.headers))
    /\ pc' = "awaiting"
    /\ UNCHANGED <<allButDispatch, options, depth, outcome, result>>

\* type === 'get', the URL is too long: interfaceCall({..., type: 'post'}),
\* which runs up to its own api.post.
FallBackToPost ==
    /\ pc = "called" /\ options.type = "get"
    /\ Encodable(compressGraphQLQuery(options.query))
    /\ LET url == fullUrl(options.query, options.variables)
       IN  /\ isUrlTooLong(fullUrlLength(url))
           /\ urlLength' = fullUrlLength(url)
    /\ depth' = depth + 1
    /\ calls' = Append(calls, postCall(fallbackOptions(options)))
    /\ pc' = "awaiting"
    /\ UNCHANGED <<allButDispatch, options, outcome, result>>

\* type === 'post': api.post(graphqlUrl, {query, variables}, {headers}).
IssuePost ==
    /\ pc = "called" /\ options.type = "post"
    /\ calls' = Append(calls, postCall(options))
    /\ pc' = "awaiting"
    /\ UNCHANGED <<allButDispatch, options, depth, urlLength, outcome, result>>

\* The awaited call resolves with `response`.
Resolve(response) ==
    /\ pc = "awaiting"
    /\ outcome' = [kind |-> "resolved", value |-> response]
    /\ Finish(unwind(afterResponse(response), depth))
    /\ UNCHANGED <<allButDispatch, options, depth, calls, urlLength>>

\* The awaited call rejects with `error`.
Reject(error) ==
    /\ pc = "awaiting"
    /\ outcome' = [kind |-> "rejected", value |-> error]
    /\ Finish(unwind(catchBlock(error), depth))
    /\ UNCHANGED <<allButDispatch, options, depth, calls, urlLength>>

(***************************************************************************)
(* The dispatcher's inputs and the mocked transport's answers              *)
(***************************************************************************)
DispatchQueries ==
    {<<>>, <<"a">>, <<"{", "}">>, <<"{", " ", "a", "}">>, <<LoneSurrogate>>}

UrlPads == {0} \cup (PadLo..(PadLo + PadSpan))

DispatchVariables ==
    {Undefined, Null, Circular}
        \cup {Obj([url |-> Text(<<>>, n, <<>>)]) : n \in UrlPads}

DispatchHeaders == {<<>>, [store |-> "default", Authorization |-> "Bearer tok"]}

CacheIdHeaders ==
    {Opt("x-magento-cache-id", lower, lower # "-")
        @@ Opt("X-Magento-Cache-Id", upper, upper # "-")
        @@ [server |-> "nginx"] :
        lower \in {"-", "", "abc"}, upper \in {"-", "", "xyz"}}

ResponseBodies ==
    {Null, Obj(<<>>), Obj([data |-> "route"]),
     Obj([data |-> "route", cacheId |-> "stale"])}

Responses ==
    {Undefined}
        \cup {[t |-> "object", headers |-> h, data |-> d] :
                h \in {Undefined} \cup {Obj(m) : m \in CacheIdHeaders},
                d \in ResponseBodies}

ErrorResponses ==
    {Opt("status", 404, hasStatus) @@ Opt("statusText", "Not Found", hasStatus)
        @@ Opt("data", Obj([errors |-> "upstream"]), hasData) :
        hasStatus \in BOOLEAN, hasData \in BOOLEAN}

ErrorCodes ==
    {"ECONNABORTED", "ERR_SOCKET_TIMEOUT", "ENOTFOUND", "ECONNREFUSED"}

Errors ==
    {Null, Undefined}
        \cup {Obj(Opt("code", code, code # "-")
                  @@ Opt("isAxiosError", TRUE, axios)
                  @@ Opt("response", Obj(resp.props), resp.present)
                  @@ Opt("networkError", Obj([statusCode |-> 503]), network)
                  @@ Opt("statusCode", 502, custom)
                  @@ Opt("message", "boom", hasMessage)) :
                code \in ErrorCodes \cup {"-"},
                axios \in BOOLEAN,
                resp \in {[present |-> FALSE, props |-> <<>>]}
                            \cup {[present |-> TRUE, props |-> r] : r \in ErrorResponses},
                network \in BOOLEAN,
                custom \in BOOLEAN,
                hasMessage \in BOOLEAN}

Init ==
    /\ CompressOff /\ PoolOff /\ HeadersOff /\ ParamsOff
    /\ pc = "called"
    /\ options \in [query : DispatchQueries, variables : DispatchVariables,
                    headers : DispatchHeaders, type : {"get", "post"}]
    /\ depth = 0
    /\ calls = <<>>
    /\ urlLength = -1
    /\ outcome = <<>>
    /\ result = <<>>

Next ==
    \/ BuildFails
    \/ IssueGet
    \/ FallBackToPost
    \/ IssuePost
    \/ \E response \in Responses : Resolve(response)
    \/ \E error \in Errors : Reject(error)

Spec == Init /\ [][Next]_vars

(***************************************************************************)
(* Claims about the dispatcher                                             *)
(***************************************************************************)
Completed == pc \in {"returned", "threw"}

\* The method the claim expects: POST for a POST dispatch and for a GET
\* dispatch whose built URL is longer than 8192 characters, GET otherwise.
ExpectedMethod ==
    IF options.type = "post" \/ urlLength > MaxUrlLength THEN "post" ELSE "get"

\* C1 as stated: every call of the dispatcher issues exactly one upstream
\* call, a POST when the mode is POST or the built URL is longer than 8192
\* characters, and a GET otherwise (a URL of exactly 8192 included).
C1_ExactlyOneUpstreamCall ==
    Completed => /\ Len(calls) = 1
                 /\ calls[1].method = ExpectedMethod

\* The URL of a GET dispatch cannot be built: encodeURIComponent throws.
UrlBuildFails ==
    options.type = "get" /\ ~Encodable(compressGraphQLQuery(options.query))

\* C1 as amended: a dispatch whose URL cannot be built issues no upstream
\* call; every other dispatch issues exactly one, a POST when the mode is
\* POST or the built URL is longer than 8192 characters and a GET otherwise.
C1_OneUpstreamCallUnlessBuildFails ==
    /\ Len(calls) <= 1
    /\ pc = "awaiting" => Len(calls) = 1
    /\ Completed =>
          IF UrlBuildFails THEN calls = <<>>
          ELSE Len(calls) = 1 /\ calls[1].method = ExpectedMethod

\* A GET dispatch whose URL is one character over the limit completed with a
\* single POST.
C1_Witness ==
    /\ pc = "returned" /\ options.type = "get"
    /\ urlLength = MaxUrlLength + 1
    /\ Len(calls) = 1 /\ calls[1].method = "post"

\* C2: the dispatcher never throws to its caller; a call whose upstream call
\* or URL building failed returns an envelope with code -1 whatever was
\* thrown, and every returned envelope has code 0 or -1.
C2_NeverThrows ==
    /\ pc # "threw"
    /\ pc = "returned" =>
          /\ result.code \in {0, -1}
          /\ outcome.kind = "rejected" => result.code = -1

\* The cache identifier the response headers carry: the value under
\* 'x-magento-cache-id', else the one under 'X-Magento-Cache-Id', else "".
\* A header with an empty value carries no identifier.
CarriedCacheId(headers) ==
    LET lower == IF Has(headers, "x-magento-cache-id")
                 THEN headers.props["x-magento-cache-id"] ELSE ""
        upper == IF Has(headers, "X-Magento-Cache-Id")
                 THEN headers.props["X-Magento-Cache-Id"] ELSE ""
    IN  IF lower # "" THEN lower ELSE upper

\* C4: every success envelope with data, on the GET path, the POST path and
\* the GET->POST fallback path, has data.cacheId equal to the identifier the
\* upstream response headers carry ("" when they carry none), whatever
\* cacheId the upstream body held.
C4_CacheIdFromResponseHeaders ==
    (pc = "returned" /\ result.code = 0 /\ result.data.t = "object")
        => /\ "cacheId" \in DOMAIN result.data.props
           /\ result.data.props.cacheId = CarriedCacheId(outcome.value.headers)

\* On the fallback path, the header 'X-Magento-Cache-Id: xyz' replaced the
\* cacheId "stale" of the upstream body.
C4_Witness ==
    /\ pc = "returned" /\ depth = 1 /\ result.code = 0
    /\ outcome.kind = "resolved" /\ outcome.value.t = "object"
    /\ Has(outcome.value.data, "cacheId")
    /\ outcome.value.data.props.cacheId = "stale"
    /\ ~Has(outcome.value.headers, "x-magento-cache-id")
    /\ result.data.props.cacheId = "xyz"

\* C6, for the responses that have a status: for an error that carries a
\* response and none of the timeout or unreachable codes, statusCode is the
\* response's status and the message is 'Server error: <status>
\* <statusText>', so the message and statusCode show the same status.
C6_StatusFromEmbeddedResponse ==
    (/\ pc = "returned" /\ outcome.kind = "rejected"
     /\ Has(outcome.value, "response")
     /\ Has(outcome.value.props.response, "status")
     /\ ~(Has(outcome.value, "code") /\ outcome.value.props.code \in ErrorCodes))
        => LET response == outcome.value.props.response
           IN  /\ result.statusCode = response.props.status
               /\ result.message = "Server error: " \o ToString(result.statusCode)
                                       \o " " \o response.props.statusText

\* C10: a POST issued for a GET dispatch is the single fallback hop: the URL
\* was judged too long before it, no other call is issued, and it carries
\* the caller's query as given (no typename token), the caller's variables
\* as given and the caller's headers.
C10_FallbackCarriesOriginalRequest ==
    /\ depth \in {0, 1}
    /\ depth = 1 <=> (options.type = "get" /\ calls # <<>> /\ calls[1].method = "post")
    /\ depth = 1 =>
          /\ urlLength > MaxUrlLength
          /\ Len(calls) = 1
          /\ calls[1].body.query = options.query
          /\ \A i \in 1..Len(calls[1].body.query) : calls[1].body.query[i] # Typename
          /\ calls[1].body.variables = options.variables
          /\ calls[1].headers = options.headers

\* A fallback completed for a query that compression would have changed.
C10_Witness ==
    /\ pc = "returned" /\ depth = 1
    /\ compressGraphQLQuery(options.query) # options.query
    /\ options.variables.t = "object"
    /\ options.headers # <<>>

(***************************************************************************)
(* axiosPoolSingleton: the module body, evaluated when the module is       *)
(* loaded.  It runs without suspending, so one evaluation is one step.     *)
(***************************************************************************)
alwaysCreate(current, fresh) == fresh

\* global.__axiosInstance || (() => { ...; return axios.create({...}) })()
instanceOrCreate(current, fresh) == IF current # 0 THEN current ELSE fresh

\* One evaluation m of the module: the assignment to global.__axiosInstance
\* and `export default global.__axiosInstance`.
EvaluateModule(m) ==
    /\ exported[m] = 0
    /\ LET value == instanceOrCreate(globalInstance, created + 1)
       IN  /\ globalInstance' = value
           /\ created' = IF value = created + 1 THEN created + 1 ELSE created
           /\ exported' = [exported EXCEPT ![m] = value]
    /\ UNCHANGED <<tasks, allButPool>>

\* Task t, importing `api` from evaluation m, issues its request with it and
\* suspends on the answer.
TaskUsesClient(t, m) ==
    /\ tasks[t].pc = "ready"
    /\ exported[m] # 0
    /\ tasks' = [tasks EXCEPT ![t] = [pc |-> "awaiting", client |-> exported[m]]]
    /\ UNCHANGED <<globalInstance, created, exported, allButPool>>

\* The answer arrives and task t completes.
TaskCompletes(t) ==
    /\ tasks[t].pc = "awaiting"
    /\ tasks' = [tasks EXCEPT ![t].pc = "done"]
    /\ UNCHANGED <<globalInstance, created, exported, allButPool>>

PoolInit ==
    /\ CompressOff /\ DispatchOff /\ HeadersOff /\ ParamsOff
    /\ globalInstance = 0
    /\ created = 0
    /\ exported = [m \in 1..MaxModuleLoads |-> 0]
    /\ tasks = [t \in 1..MaxTasks |-> [pc |-> "ready", client |-> 0]]

PoolNext ==
    \/ \E m \in 1..MaxModuleLoads : EvaluateModule(m)
    \/ \E t \in 1..MaxTasks, m \in 1..MaxModuleLoads : TaskUsesClient(t, m)
    \/ \E t \in 1..MaxTasks : TaskCompletes(t)

SpecPool == PoolInit /\ [][PoolNext]_vars

\* C3: axios.create() runs at most once per process, and all tasks that
\* have used the client, under every interleaving and through whichever
\* evaluation of the module, have used the one client that was created.
C3_SinglePoolInstance ==
    /\ created <= 1
    /\ \A m \in 1..MaxModuleLoads : exported[m] # 0 => exported[m] = globalInstance
    /\ \A t \in 1..MaxTasks :
          tasks[t].pc # "ready" => tasks[t].client = globalInstance /\ created = 1

\* The module was evaluated twice and two tasks used the client through
\* different evaluations.
C3_Witness ==
    /\ \A m \in 1..MaxModuleLoads : exported[m] # 0
    /\ \E t, u \in 1..MaxTasks : t # u /\ tasks[t].pc = "done" /\ tasks[u].pc = "awaiting"
    /\ created = 1

(***************************************************************************)
(* extractRequestInfo and getHeaders                                       *)
(*   req.cookies and req.headers are property maps of strings.             *)
(***************************************************************************)
Str(text) == [t |-> "string", s |-> text]
Num(n) == [t |-> "number", n |-> n]
Arr(items) == [t |-> "array", items |-> items]

\* m[k] as JavaScript truthiness sees it: "" for a missing (undefined) or
\* empty string, the string otherwise.
Truthy(m, k) == IF k \in DOMAIN m THEN m[k] ELSE ""

getCustomerToken(req) == Truthy(req.cookies, "vsf-customer")

getStore(req) ==
    IF Truthy(req.headers, "site-store") # "" THEN req.headers["site-store"]
    ELSE "default"

getCurrency(req) == Truthy(req.cookies, "vsf-currency")

getMagentoCacheId(req) == Truthy(req.cookies, "X-Magento-Cache-Id")

getUuid(req) == Truthy(req.cookies, "fp-uuid")

getXForwardFor(req) ==
    IF Truthy(req.headers, "X-Forwarded-For") # ""
    THEN req.headers["X-Forwarded-For"]
    ELSE Truthy(req.headers, "x-forwarded-for")

getUserAgent(req) == Truthy(req.headers, "user-agent")

\* The own enumerable properties {...value} copies: an object's properties,
\* a string's characters under their indices, nothing for null, undefined
\* and numbers.
spreadOf(value) ==
    IF value.t = "object" THEN value.props
    ELSE IF value.t = "string"
         THEN [k \in {ToString(i - 1) : i \in 1..Len(value.s)} |->
                  LET i == CHOOSE j \in 1..Len(value.s) : ToString(j - 1) = k
                  IN  SubSeq(value.s, i, i)]
    ELSE <<>>

derivedHeaders(req) ==
    Opt("Authorization", "Bearer " \o getCustomerToken(req), getCustomerToken(req) # "")
        @@ Opt("store", getStore(req), getStore(req) # "")
        @@ Opt("Content-Currency", getCurrency(req), getCurrency(req) # "")
        @@ Opt("X-Magento-Cache-Id", getMagentoCacheId(req), getMagentoCacheId(req) # "")
        @@ Opt("Correlation-ID", getUuid(req), Len(getUuid(req)) > 0)
        @@ Opt("Real-IP", getXForwardFor(req), Len(getXForwardFor(req)) > 0)
        @@ Opt("User-Agent", getUserAgent(req), Len(getUserAgent(req)) > 0)

getHeadersDerivedWin(req, customHeaders) ==
    Spread(spreadOf(customHeaders), derivedHeaders(req))

\* return {...headers, ...customHeaders}
getHeaders(req, customHeaders) ==
    Spread(derivedHeaders(req), spreadOf(customHeaders))

(***************************************************************************)
(* Specification of getHeaders: a request context and an override map are  *)
(* drawn, then the headers are derived.                                    *)
(***************************************************************************)
Cookies ==
    {Opt("vsf-customer", customer, customer # "-")
        @@ Opt("vsf-currency", "EUR", currency)
        @@ Opt("X-Magento-Cache-Id", cacheId, cacheId # "-")
        @@ Opt("fp-uuid", uuid, uuid # "-")
        @@ [theme |-> "dark"] :
        customer \in {"-", "", "tok123"}, currency \in BOOLEAN,
        cacheId \in {"-", "", "c1"}, uuid \in {"-", "", "u-1"}}

RequestHeaders ==
    {Opt("site-store", store, store # "-")
        @@ Opt("X-Forwarded-For", upper, upper # "-")
        @@ Opt("x-forwarded-for", "10.0.0.2", lower)
        @@ Opt("user-agent", agent, agent # "-")
        @@ [accept |-> "*/*"] :
        store \in {"-", "", "de"}, upper \in {"-", "", "10.0.0.1"},
        lower \in BOOLEAN, agent \in {"-", "", "curl"}}

Overrides ==
    {<<>>,
     [Authorization |-> "Basic abc"],
     "store" :> "b2b" @@ "X-Trace" :> "1",
     "Authorization" :> "Basic abc" @@ "User-Agent" :> "proxy" @@ "Real-IP" :> "::1"}

HeadersInit ==
    /\ CompressOff /\ DispatchOff /\ PoolOff /\ ParamsOff
    /\ headersPc = "called"
    /\ headersIn \in [req : [cookies : Cookies, headers : RequestHeaders],
                      customHeaders : {Obj(o) : o \in Overrides}]
    /\ headersOut = <<>>

GetHeadersReturns ==
    /\ headersPc = "called"
    /\ headersPc' = "returned"
    /\ headersOut' = getHeaders(headersIn.req, headersIn.customHeaders)
    /\ UNCHANGED <<headersIn, allButHeaders>>

SpecHeaders == HeadersInit /\ [][GetHeadersReturns]_vars

\* Property k of map m is present and not the empty string.
NonEmpty(m, k) == k \in DOMAIN m /\ m[k] # ""

\* C5: getHeaders returns the derived headers overlaid with the overrides:
\* 'store' is always there ('default' without a site-store header), each
\* other derived header is there exactly when its source cookie or header
\* is present and non-empty (or an override names it), nothing else appears
\* but override keys, and every override key holds the override's value.
C5_DerivedHeadersOverlaidWithOverrides ==
    headersPc = "returned" =>
        LET cookies   == headersIn.req.cookies
            headers   == headersIn.req.headers
            overrides == headersIn.customHeaders.props
            out       == headersOut
            Derived(k, present, value) ==
                k \notin DOMAIN overrides =>
                    /\ k \in DOMAIN out <=> present
                    /\ present => out[k] = value
        IN  /\ "store" \in DOMAIN out
            /\ Derived("store", TRUE,
                       IF NonEmpty(headers, "site-store") THEN headers["site-store"]
                       ELSE "default")
            /\ Derived("Authorization", NonEmpty(cookies, "vsf-customer"),
                       "Bearer " \o cookies["vsf-customer"])
            /\ Derived("Content-Currency", NonEmpty(cookies, "vsf-currency"),
                       cookies["vsf-currency"])
            /\ Derived("X-Magento-Cache-Id", NonEmpty(cookies, "X-Magento-Cache-Id"),
                       cookies["X-Magento-Cache-Id"])
            /\ Derived("Correlation-ID", NonEmpty(cookies, "fp-uuid"), cookies["fp-uuid"])
            /\ Derived("Real-IP",
                       NonEmpty(headers, "X-Forwarded-For")
                           \/ NonEmpty(headers, "x-forwarded-for"),
                       IF NonEmpty(headers, "X-Forwarded-For")
                       THEN headers["X-Forwarded-For"] ELSE headers["x-forwarded-for"])
            /\ Derived("User-Agent", NonEmpty(headers, "user-agent"), headers["user-agent"])
            /\ DOMAIN out \subseteq
                  {"store", "Authorization", "Content-Currency", "X-Magento-Cache-Id",
                   "Correlation-ID", "Real-IP", "User-Agent"} \cup DOMAIN overrides
            /\ \A k \in DOMAIN overrides : out[k] = overrides[k]

\* Every source is set and the overrides replace two derived headers.
C5_Witness ==
    /\ headersPc = "returned"
    /\ NonEmpty(headersIn.req.cookies, "vsf-customer")
    /\ NonEmpty(headersIn.req.headers, "user-agent")
    /\ "X-Forwarded-For" \notin DOMAIN headersIn.req.headers
    /\ headersOut["Authorization"] = "Basic abc"
    /\ headersOut["User-Agent"] = "proxy"
    /\ headersOut["store"] = "default"
    /\ "Correlation-ID" \in DOMAIN headersOut

(***************************************************************************)
(* getParamsAndHeaders                                                     *)
(*   The text of req.query.params is a sequence of JSON tokens: "[", "]",  *)
(*   "," and the literals of JsonLiterals.                                 *)
(***************************************************************************)
JsonLiterals ==
    [lit \in {"\"/p\"", "\"ab\"", "7", "null", "{}", "{\"store\":\"b2b\"}"} |->
        CASE lit = "\"/p\"" -> Str(<<"/", "p">>)
          [] lit = "\"ab\"" -> Str(<<"a", "b">>)
          [] lit = "7"      -> Num(7)
          [] lit = "null"   -> Null
          [] lit = "{}"     -> Obj(<<>>)
          [] lit = "{\"store\":\"b2b\"}" -> Obj([store |-> "b2b"])]

IsLiteral(tok) == tok \in DOMAIN JsonLiterals

\* JSON.parse: one literal, or "[" literals separated by "," "]"; anything
\* else is a SyntaxError.
JSONparse(toks) ==
    LET n     == Len(toks)
        inner == SubSeq(toks, 2, n - 1)
    IN  IF n = 1 /\ IsLiteral(toks[1])
        THEN Returned(JsonLiterals[toks[1]])
        ELSE IF /\ n >= 2 /\ toks[1] = "[" /\ toks[n] = "]"
                /\ (inner = <<>> \/ Len(inner) % 2 = 1)
                /\ \A i \in 1..Len(inner) :
                      IF i % 2 = 1 THEN IsLiteral(inner[i]) ELSE inner[i] = ","
        THEN Returned(Arr([i \in 1..((Len(inner) + 1) \div 2) |->
                              JsonLiterals[inner[2 * i - 1]]]))
        ELSE Thrown(Obj("name" :> "SyntaxError" @@ "message" :> "Unexpected token"))

isEmptyObject(obj) ==
    IF IsNullish(obj) THEN TRUE
    ELSE obj.t = "object" /\ DOMAIN obj.props = {}

\* params?.length > 1 ? params[params.length - 1] : {}
lastIfSeveral(params) ==
    IF params.t = "array" /\ Len(params.items) > 1
    THEN params.items[Len(params.items)]
    ELSE IF params.t = "string" /\ Len(params.s) > 1
    THEN Str(SubSeq(params.s, Len(params.s), Len(params.s)))
    ELSE Obj(<<>>)

\* The prefix of the Error thrown on a parse failure (in the source it is
\* the Chinese for "parameter parsing failed").
ParseFailedPrefix == "parameter parsing failed: "

getParamsAndHeaders(req) ==
    LET parsed == IF isEmptyObject(req.body)
                  THEN JSONparse(IF req.query.params = <<>> THEN <<"[", "]">>
                                 ELSE req.query.params)
                  ELSE Returned(req.body)
    IN  IF parsed.threw
        THEN Thrown(Obj("name" :> "Error"
                        @@ "message" :> (ParseFailedPrefix \o parsed.value.props.message)))
        ELSE Returned([params  |-> parsed.value,
                       headers |-> getHeaders(req, lastIfSeveral(parsed.value))])

(***************************************************************************)
(* Specification of getParamsAndHeaders: a request is drawn, then parsed.  *)
(***************************************************************************)
RECURSIVE arrayText(_)
arrayText(lits) ==
    IF lits = <<>> THEN <<>>
    ELSE IF Len(lits) = 1 THEN lits
    ELSE <<Head(lits), ",">> \o arrayText(Tail(lits))

\* JSON arrays, the same with the closing bracket cut off, single literals,
\* and the missing or empty field (<<>>).
ParamsTexts ==
    {<<"[">> \o arrayText(lits) \o <<"]">> :
        lits \in SeqsUpTo(DOMAIN JsonLiterals, MaxParams)}
    \cup {<<"[">> \o arrayText(lits) :
            lits \in SeqsUpTo(DOMAIN JsonLiterals, MaxParams)}
    \cup {<<lit>> : lit \in DOMAIN JsonLiterals}
    \cup {<<>>}

Bodies ==
    {Undefined, Null, Obj(<<>>), Arr(<<>>),
     Arr(<<Str(<<"/", "p">>), Obj([store |-> "b2b"])>>)}

ParamsInit ==
    /\ CompressOff /\ DispatchOff /\ PoolOff /\ HeadersOff
    /\ paramsPc = "called"
    /\ paramsIn \in [cookies : {[theme |-> "dark"], "theme" :> "dark" @@ "fp-uuid" :> "u-1"},
                     headers : {[accept |-> "*/*"]},
                     body : Bodies,
                     query : [params : ParamsTexts]]
    /\ paramsOut = <<>>

GetParamsAndHeadersReturns ==
    /\ paramsPc = "called"
    /\ LET completion == getParamsAndHeaders(paramsIn)
       IN  /\ paramsPc' = IF completion.threw THEN "threw" ELSE "returned"
           /\ paramsOut' = completion.value
    /\ UNCHANGED <<paramsIn, allButParams>>

SpecParams == ParamsInit /\ [][GetParamsAndHeadersReturns]_vars

\* C7: with an empty or absent body and a JSON array in 'params', the last
\* element of the array is the header overrides exactly when it is an
\* object, for arrays of any length from one element on; a last element
\* that is not an object contributes no header.
C7_LastObjectIsOverrides ==
    (/\ paramsPc = "returned"
     /\ isEmptyObject(paramsIn.body)
     /\ paramsOut.params.t = "array"
     /\ paramsOut.params.items # <<>>)
        => LET last == paramsOut.params.items[Len(paramsOut.params.items)]
           IN  paramsOut.headers =
                  IF last.t = "object" THEN getHeaders(paramsIn, last)
                  ELSE getHeaders(paramsIn, Obj(<<>>))

=============================================================================
